---- MODULE Spec2Model ----
(***************************************************************************)
(* Colab Automated Processor (src/Colab_Automated.py): the JobQueue sheet, *)
(* the claim / execute / finalize protocol of the Processor Loop and the   *)
(* start / stop control plane.                                             *)
(*                                                                         *)
(* One action is one access to shared state (the sheet, is_running, the    *)
(* thread handle) together with the thread-local computation that follows  *)
(* it up to the next shared access.  Every update_cell and get_all_values  *)
(* call may raise (gspread APIError); a raising update_cell writes nothing.*)
(***************************************************************************)
EXTENDS Naturals, Sequences, FiniteSets, TLC

\* ------------------------------------------------------------------ bounds
\* Data rows of the JobQueue sheet below the header row, for one Processor
\* Loop (SpecLoop) and for the whole program (Spec).
MaxRows == 2
MaxSharedRows == 1
\* Largest max_iterations a request passes to /activate.
MaxIter == 1
\* Largest max_iterations of a loop run against a short queue (SpecLimits).
MaxLimit == 3

\* Flask request threads serving /activate and /deactivate.
Requests == {"c1", "c2"}
\* Slots for Processor Loop threads that are alive at the same time.
Threads == <<"t1", "t2">>

\* --------------------------------------------------------------- constants
\* class JobStatus
PENDING == "PENDING"
CLAIMED == "CLAIMED"
RUNNING == "RUNNING"
COMPLETED == "COMPLETED"
FAILED == "FAILED"
JobStatus == {PENDING, CLAIMED, RUNNING, COMPLETED, FAILED}

\* Sheet columns (1-based, as update_cell addresses them).
COL_STATUS == 3
COL_CLAIMED == 7
COL_COMPLETED == 8
COL_RESULT == 9
COL_ERROR_CODE == 10
COL_ERROR_MESSAGE == 11

\* First data row: enumerate(all_values[1:], start=2).
FIRST_DATA_ROW == 2
\* "Auto-stop apos 10 verificacoes sem jobs".
IDLE_LIMIT == 10

\* ------------------------------------------------------------------ inputs
\* The job names process_job dispatches, and one it does not know.
KnownJobs == {"EXPORT_CSV", "BATCH_CLEANUP", "GENERATE_REPORT", "CALCULATE_STATS"}
\* Payload cells: empty, well-formed JSON, malformed JSON.
ValidJson == {"{sheetName:Data}"}
\* The (jobName, payload) pairs an enqueuer puts in a row.
JobKinds ==
    { <<"GENERATE_REPORT", "">>,
      <<"EXPORT_CSV", "{sheetName:Data}">>,
      <<"GENERATE_REPORT", "{bad">>,
      <<"UNKNOWN_X", "">> }
\* Status cell of row 1.  A sheet made by setup_processor holds the header
\* 'status'; a sheet that already existed may hold anything in row 1.
HeaderStatus == {"status", PENDING}
\* auto_stop_minutes of a request: 0 stands for None (falsy), 30 the default.
AutoStopChoices == {0, 30}
\* (max_iterations, auto_stop_minutes) of a request; 0 stands for None.
AllArgs == (0..MaxIter) \X AutoStopChoices
\* The same with limits up to MaxLimit.
LimitArgs == (0..MaxLimit) \X AutoStopChoices
\* A request that sets no limit: max_iterations = None, auto_stop_minutes = None.
UnlimitedArgs == {<<0, 0>>}

\* -------------------------------------------------------------- exceptions
NoError == [code |-> "", message |-> ""]
\* gspread raising from update_cell / get_all_values.
APIError == [code |-> "APIError", message |-> "APIError"]

Min(a, b) == IF a < b THEN a ELSE b

VARIABLES
    spreadsheet,       \* _processor_state['spreadsheet'] is not None
    is_running,        \* _processor_state['is_running']
    processor_thread,  \* _processor_state['processor_thread']: "None" or a thread
    sheet,             \* the JobQueue worksheet: row 1 the header, then data rows
    loop,              \* per thread slot: the locals of _processor_loop and its callees
    ctl,               \* per request thread: position in start/stop
    response,          \* the result the latest start/stop call returned
    returned,          \* history: per row, how often claim_next_job returned it (capped at 2)
    stops_in_row       \* history: stop() calls that returned since the latest start() call
                       \* was made or was in progress (capped at 2)

vars == <<spreadsheet, is_running, processor_thread, sheet, loop, ctl, response, returned, stops_in_row>>

ThreadIds == {Threads[k] : k \in 1..Len(Threads)}

\* ------------------------------------------------------------------- sheet
\* A row as the enqueuer appends it, or as an earlier run left it.
Row(kind, status) ==
    [ jobName             |-> kind[1],
      status              |-> status,
      payload             |-> kind[2],
      timestamp_claimed   |-> IF status \in {PENDING, "status"} THEN "" ELSE "ts",
      timestamp_completed |-> IF status \in {PENDING, CLAIMED, "status"} THEN "" ELSE "ts",
      result              |-> IF status = COMPLETED THEN "result" ELSE "",
      errorCode           |-> IF status = FAILED THEN "ValueError" ELSE "",
      errorMessage        |-> IF status = FAILED THEN "message" ELSE "" ]

HeaderRow(status) == Row(<<"jobName", "payload">>, status)

\* Rows waiting to be claimed, of every kind, and rows in every later status.
PendingRows == { Row(k, PENDING) : k \in JobKinds }
DataRows == PendingRows \cup { Row(<<"GENERATE_REPORT", "">>, s) : s \in JobStatus }

\* Sheets of a header row and up to n rows drawn from `rows`.
Sheets(headers, rows, n) ==
    UNION { { <<HeaderRow(h)>> \o data : h \in headers, data \in [1..k -> rows] }
            : k \in 0..n }

\* job_queue_sheet.update_cell(row, col, value)
update_cell(sh, row, col, value) ==
    [sh EXCEPT ![row] =
        CASE col = COL_STATUS        -> [@ EXCEPT !.status = value]
          [] col = COL_CLAIMED       -> [@ EXCEPT !.timestamp_claimed = value]
          [] col = COL_COMPLETED     -> [@ EXCEPT !.timestamp_completed = value]
          [] col = COL_RESULT        -> [@ EXCEPT !.result = value]
          [] col = COL_ERROR_CODE    -> [@ EXCEPT !.errorCode = value]
          [] col = COL_ERROR_MESSAGE -> [@ EXCEPT !.errorMessage = value]]

\* job_queue_sheet.get_all_values(), column 3 of every row (the other cells
\* claim_next_job reads, row[0], row[1], row[3..5], are never written here).
get_all_values(sh) == [r \in 1..Len(sh) |-> sh[r].status]

\* ------------------------------------------------------ Processor Loop state
\* A thread slot with no live thread in it.
DeadLoop ==
    [ pc                |-> "dead",
      iteration         |-> 0,
      idle_count        |-> 0,
      max_iterations    |-> 0,       \* 0 stands for None
      auto_stop_minutes |-> 0,       \* 0 stands for None
      all_values        |-> <<>>,    \* claim_next_job: the scan's snapshot
      i                 |-> 0,       \* claim_next_job: the row being claimed
      job               |-> 0,       \* process_job: job['row']
      status            |-> "",      \* update_job_status: its status argument
      result            |-> "",      \* update_job_status: its result argument ("" is None)
      exc               |-> NoError, \* update_job_status: error_code, error_message
      col               |-> 0,       \* update_job_status: the next cell it writes
      nclaimed          |-> 0,       \* history: status cells this claim_next_job call set to CLAIMED
      attempts          |-> 0,       \* history: claim_next_job calls of a loop with max_iterations set
      misses            |-> 0 ]      \* history: calls in a row that returned None, auto_stop_minutes set

\* threading.Thread(target=_processor_loop, args=(interval, max_iterations,
\* auto_stop_minutes)).start(): iteration = 0, idle_count = 0.
NewLoop(max_iterations, auto_stop_minutes) ==
    [DeadLoop EXCEPT !.pc = "while",
                     !.max_iterations = max_iterations,
                     !.auto_stop_minutes = auto_stop_minutes]

\* ---------------------------------------------------------- claim_next_job
\* Mutant of IsPending: a FAILED row is taken up again (a retry).
IsPending_OrFailed(cell) == cell \in {PENDING, FAILED}

\* Mutant of IsPending: a row left CLAIMED is taken up again.
IsPending_OrClaimed(cell) == cell \in {PENDING, CLAIMED}

\* `len(row) >= 3 and row[2] == JobStatus.PENDING`
IsPending(cell) == cell = PENDING

\* The for loop of claim_next_job: the first row at or after `from` the scan
\* selects, 0 when it runs off the end.
NextPending(all_values, from) ==
    LET S == {r \in from..Len(all_values) : IsPending(all_values[r])}
    IN  IF S = {} THEN 0 ELSE CHOOSE r \in S : \A q \in S : r <= q

\* `json.loads(row[3]) if row[3] else {}` returns (it raises otherwise).
PayloadParses(payload) == payload = "" \/ payload \in ValidJson

\* The loop body after claim_next_job returned None: idle_count += 1, the
\* idle auto-stop test, time.sleep(interval).  idle_count is read only by
\* `auto_stop_minutes and idle_count >= 10`, so it is counted only for a loop
\* with auto_stop_minutes set.
ClaimMiss(l) ==
    LET n == IF l.auto_stop_minutes = 0 THEN 0 ELSE l.idle_count + 1
    IN  [l EXCEPT !.idle_count = n,
                  !.misses = IF l.auto_stop_minutes = 0 THEN 0 ELSE @ + 1,
                  !.all_values = <<>>,
                  !.i = 0,
                  !.pc = IF l.auto_stop_minutes # 0 /\ n >= IDLE_LIMIT
                         THEN "finally" ELSE "while"]

\* `except Exception: ... continue`: on to the next PENDING row of the snapshot.
ClaimContinue(l) ==
    LET n == NextPending(l.all_values, l.i + 1)
    IN  IF n = 0 THEN ClaimMiss(l) ELSE [l EXCEPT !.i = n, !.pc = "claim_status"]

\* `return job`, then process_job(job) begins with update_job_status(RUNNING).
ClaimReturn(l) ==
    [l EXCEPT !.pc = "update_job_status",
              !.job = l.i,
              !.status = RUNNING,
              !.result = "",
              !.exc = NoError,
              !.col = COL_STATUS,
              !.misses = 0,
              !.all_values = <<>>,
              !.i = 0]

\* all_values = job_queue_sheet.get_all_values(), and the scan to the first
\* PENDING row.  A raising read is caught by the outer except: return None.
ClaimGetAllValues(t) ==
    /\ loop[t].pc = "claim_next_job"
    /\ \/ loop' = [loop EXCEPT ![t] = ClaimMiss(@)]
       \/ LET all_values == get_all_values(sheet)
              first == NextPending(all_values, FIRST_DATA_ROW)
          IN  loop' = [loop EXCEPT ![t] =
                  IF Len(all_values) <= 1 \/ first = 0
                  THEN ClaimMiss(@)
                  ELSE [@ EXCEPT !.all_values = all_values, !.i = first,
                                 !.nclaimed = 0, !.pc = "claim_status"]]
    /\ UNCHANGED <<spreadsheet, is_running, processor_thread, sheet, ctl, response, returned, stops_in_row>>

\* job_queue_sheet.update_cell(i, 3, JobStatus.CLAIMED)
WriteClaimed(sh, i) == update_cell(sh, i, COL_STATUS, CLAIMED)

\* job_queue_sheet.update_cell(i, 7, timestamp_claimed)
WriteClaimedAt(sh, i) == update_cell(sh, i, COL_CLAIMED, "ts")

\* The first cell write of a claim; a raising write goes on to the next row.
ClaimUpdateStatus(t) ==
    /\ loop[t].pc = "claim_status"
    /\ \/ /\ loop' = [loop EXCEPT ![t] = ClaimContinue(@)]
          /\ UNCHANGED sheet
       \/ /\ sheet' = WriteClaimed(sheet, loop[t].i)
          /\ loop' = [loop EXCEPT ![t] =
                 [@ EXCEPT !.pc = "claim_timestamp",
                           !.nclaimed = @ + (IF sheet[loop[t].i].status = PENDING THEN 1 ELSE 0)]]
    /\ UNCHANGED <<spreadsheet, is_running, processor_thread, ctl, response, returned, stops_in_row>>

\* The second cell write of a claim, then the job dict is built (json.loads
\* of the payload) and returned; a raising write or parse goes on to the next row.
ClaimUpdateTimestamp(t) ==
    /\ loop[t].pc = "claim_timestamp"
    /\ \/ /\ loop' = [loop EXCEPT ![t] = ClaimContinue(@)]
          /\ UNCHANGED <<sheet, returned>>
       \/ /\ sheet' = WriteClaimedAt(sheet, loop[t].i)
          /\ IF PayloadParses(sheet[loop[t].i].payload)
             THEN /\ loop' = [loop EXCEPT ![t] = ClaimReturn(@)]
                  /\ returned' = [returned EXCEPT ![loop[t].i] = Min(@ + 1, 2)]
             ELSE /\ loop' = [loop EXCEPT ![t] = ClaimContinue(@)]
                  /\ UNCHANGED returned
    /\ UNCHANGED <<spreadsheet, is_running, processor_thread, ctl, response, stops_in_row>>

\* ------------------------------------------- update_job_status, process_job
\* Mutant of HandlerOutcomes: the dispatch has no else branch, an unknown
\* name falls through and the job is completed.
HandlerOutcomes_NoElse(jobName, payload) ==
    IF jobName = "EXPORT_CSV"
    THEN IF payload = ""
         THEN {[code |-> "ValueError", message |-> "sheetName e obrigatorio no payload"]}
         ELSE {NoError, [code |-> "WorksheetNotFound", message |-> "Data"]}
    ELSE {NoError}

\* What a handler call can do: NoError when it returns a result, else the
\* exception it raises.  An unknown name raises ValueError with no handler run.
HandlerOutcomes(jobName, payload) ==
    CASE jobName = "EXPORT_CSV" ->
            IF payload = ""
            THEN {[code |-> "ValueError", message |-> "sheetName e obrigatorio no payload"]}
            ELSE {NoError, [code |-> "WorksheetNotFound", message |-> "Data"]}
      [] jobName \in KnownJobs \ {"EXPORT_CSV"} -> {NoError}
      [] OTHER -> {[code |-> "ValueError", message |-> "Job desconhecido: " \o jobName]}

\* The value update_job_status writes into its next cell.  timestamp_completed
\* is datetime.now() of the call: each status update has a timestamp of its own.
CellValue(l) ==
    CASE l.col = COL_STATUS        -> l.status
      [] l.col = COL_COMPLETED     -> "ts_" \o l.status
      [] l.col = COL_RESULT        -> l.result
      [] l.col = COL_ERROR_CODE    -> l.exc.code
      [] l.col = COL_ERROR_MESSAGE -> l.exc.message

\* The cell update_job_status writes after column c, 0 when it returns:
\* status, timestamp_completed, `if result is not None`, `if error_code`,
\* `if error_message`.
NextCol(l, c) ==
    LET after == {k \in {COL_COMPLETED} \cup
                        (IF l.result # "" THEN {COL_RESULT} ELSE {}) \cup
                        (IF l.exc.code # "" THEN {COL_ERROR_CODE} ELSE {}) \cup
                        (IF l.exc.message # "" THEN {COL_ERROR_MESSAGE} ELSE {}) : k > c}
    IN  IF after = {} THEN 0 ELSE CHOOSE k \in after : \A q \in after : k <= q

\* A call update_job_status(job['row'], status, result, error_code, error_message).
CallUpdate(l, status, result, exc) ==
    [l EXCEPT !.pc = "update_job_status", !.status = status, !.result = result,
              !.exc = exc, !.col = COL_STATUS]

\* Mutant of ProcessReturn: idle_count is not reset after a job.
ProcessReturn_NoReset(l) ==
    [l EXCEPT !.pc = "while", !.job = 0, !.status = "",
              !.result = "", !.exc = NoError, !.col = 0]

\* process_job returned to the loop: idle_count = 0, time.sleep(interval).
ProcessReturn(l) ==
    [l EXCEPT !.pc = "while", !.idle_count = 0, !.job = 0, !.status = "",
              !.result = "", !.exc = NoError, !.col = 0]

\* An exception left process_job: the loop's `except Exception`, then finally.
ProcessRaise(l) ==
    [l EXCEPT !.pc = "finally", !.job = 0, !.status = "", !.result = "",
              !.exc = NoError, !.col = 0]

\* The status the except block of process_job writes.
ExceptStatus == FAILED

\* A cell write of update_job_status raised: it re-raises.  Inside the try of
\* process_job the except block calls update_job_status(FAILED); inside the
\* except block the exception leaves process_job.
UpdateRaised(l) ==
    IF l.status = ExceptStatus
    THEN ProcessRaise(l)
    ELSE CallUpdate(l, ExceptStatus, "", APIError)

\* update_job_status returned to process_job.
UpdateReturned(l, outcome) ==
    IF l.status = RUNNING
    THEN IF outcome = NoError
         THEN CallUpdate(l, COMPLETED, "result", NoError)
         ELSE CallUpdate(l, ExceptStatus, "", outcome)
    ELSE ProcessReturn(l)

\* One job_queue_sheet.update_cell of update_job_status; after the last cell
\* of the RUNNING update the handler is dispatched.
UpdateJobStatus(t) ==
    /\ loop[t].pc = "update_job_status"
    /\ \/ /\ loop' = [loop EXCEPT ![t] = UpdateRaised(@)]
          /\ UNCHANGED sheet
       \/ /\ sheet' = update_cell(sheet, loop[t].job, loop[t].col, CellValue(loop[t]))
          /\ LET c == NextCol(loop[t], loop[t].col)
             IN  IF c # 0
                 THEN loop' = [loop EXCEPT ![t] = [@ EXCEPT !.col = c]]
                 ELSE \E outcome \in HandlerOutcomes(sheet[loop[t].job].jobName,
                                                     sheet[loop[t].job].payload) :
                          loop' = [loop EXCEPT ![t] = UpdateReturned(@, outcome)]
    /\ UNCHANGED <<spreadsheet, is_running, processor_thread, ctl, response, returned, stops_in_row>>

\* --------------------------------------------------------- _processor_loop
\* Whether `elapsed_minutes >= auto_stop_minutes` holds is the clock's choice.
ElapsedChoices(l) == IF l.auto_stop_minutes # 0 THEN BOOLEAN ELSE {FALSE}

\* Mutant of WhileCondition: `while True:`.
WhileCondition_True == TRUE

\* `while _processor_state['is_running']:`
WhileCondition == is_running

\* Mutant of LimitReached: `iteration >= max_iterations`.
LimitReached_AtLimit(l, iteration) ==
    l.max_iterations # 0 /\ iteration >= l.max_iterations

\* `if max_iterations and iteration > max_iterations:`
LimitReached(l, iteration) ==
    l.max_iterations # 0 /\ iteration > l.max_iterations

\* `while _processor_state['is_running']:`, iteration += 1, the iteration
\* limit and the elapsed-time auto-stop.  iteration is read only by
\* `max_iterations and iteration > max_iterations`, so it is counted only for
\* a loop with max_iterations set.
LoopWhile(t) ==
    /\ loop[t].pc = "while"
    /\ LET l == loop[t]
           n == IF l.max_iterations = 0 THEN 0 ELSE l.iteration + 1
       IN  \E elapsed \in ElapsedChoices(l) :
               loop' = [loop EXCEPT ![t] =
                   IF ~WhileCondition
                   THEN [@ EXCEPT !.pc = "finally"]
                   ELSE IF LimitReached(l, n) \/ elapsed
                   THEN [@ EXCEPT !.iteration = n, !.pc = "finally"]
                   ELSE [@ EXCEPT !.iteration = n,
                                  !.attempts = IF l.max_iterations = 0 THEN 0 ELSE @ + 1,
                                  !.pc = "claim_next_job"]]
    /\ UNCHANGED <<spreadsheet, is_running, processor_thread, sheet, ctl, response, returned, stops_in_row>>

\* `finally: _processor_state['is_running'] = False`; the thread ends.
LoopFinally(t) ==
    /\ loop[t].pc = "finally"
    /\ is_running' = FALSE
    /\ loop' = [loop EXCEPT ![t] = DeadLoop]
    /\ UNCHANGED <<spreadsheet, processor_thread, sheet, ctl, response, returned, stops_in_row>>

\* ----------------------------------------------------------- control plane
\* A request thread between requests.
IdleCtl == [pc |-> "idle", clean |-> FALSE]

\* A start() call is in progress on some request thread.
StartInFlight == \E c \in Requests : ctl[c].pc = "start_launch"

\* The thread slot a new thread takes: the first with no live thread.
FreeSlot ==
    LET S == {k \in 1..Len(Threads) : loop[Threads[k]].pc = "dead"}
    IN  IF S = {} THEN "None" ELSE Threads[CHOOSE k \in S : \A q \in S : k <= q]

\* setup_processor(spreadsheet_id) binds the sheet (a failed setup binds nothing).
SetupProcessor ==
    /\ ~spreadsheet
    /\ spreadsheet' = TRUE
    /\ UNCHANGED <<is_running, processor_thread, sheet, loop, ctl, response, returned, stops_in_row>>

\* Mutant of StartRefusal: the is_running test is missing.
StartRefusal_NoRunningTest == IF ~spreadsheet THEN "not_configured" ELSE ""

\* What start_processor_background answers before it does anything:
\* "already_running" when `_processor_state['is_running']`, "not_configured"
\* when `_processor_state['spreadsheet'] is None`, "" when it goes on.
StartRefusal ==
    IF is_running THEN "already_running"
    ELSE IF ~spreadsheet THEN "not_configured"
    ELSE ""

\* start_processor_background called: the two refusal tests.
StartCheck(c) ==
    /\ ctl[c].pc = "idle"
    /\ IF StartRefusal # ""
       THEN /\ response' = StartRefusal
            /\ ctl' = [x \in Requests |-> [ctl[x] EXCEPT !.clean = FALSE]]
       ELSE /\ ctl' = [x \in Requests |->
                       IF x = c THEN [ctl[x] EXCEPT !.pc = "start_launch"]
                                ELSE [ctl[x] EXCEPT !.clean = FALSE]]
            /\ UNCHANGED response
    /\ stops_in_row' = 0
    /\ UNCHANGED <<spreadsheet, is_running, processor_thread, sheet, loop, returned>>

\* `_processor_state['is_running'] = True`, `thread = threading.Thread(...)`,
\* `thread.start()`, `_processor_state['processor_thread'] = thread`, `return
\* {'success': True, ...}`.  The three writes are one step: the new thread
\* reads is_running only after it is set, and a stop() that would run between
\* them finds the same flag and a handle whose join may time out anyway.
StartLaunch(c, args) ==
    /\ ctl[c].pc = "start_launch"
    /\ FreeSlot # "None"
    /\ is_running' = TRUE
    /\ \E a \in args : loop' = [loop EXCEPT ![FreeSlot] = NewLoop(a[1], a[2])]
    /\ processor_thread' = FreeSlot
    /\ ctl' = [ctl EXCEPT ![c] = IdleCtl]
    /\ response' = "started"
    /\ UNCHANGED <<spreadsheet, sheet, returned, stops_in_row>>

\* Mutant of StopRefusal: the is_running test is missing.
StopRefusal_Never == ""

\* What stop_processor answers before it does anything: "not_running" when
\* `not _processor_state['is_running']`, "" when it goes on.
StopRefusal == IF ~is_running THEN "not_running" ELSE ""

\* stop_processor called: the refusal test.  clean: no start() call is in
\* progress now, and none has been made since.
StopCheck(c) ==
    /\ ctl[c].pc = "idle"
    /\ IF StopRefusal # ""
       THEN /\ response' = StopRefusal
            /\ stops_in_row' = IF StartInFlight THEN 0 ELSE Min(stops_in_row + 1, 2)
            /\ UNCHANGED ctl
       ELSE /\ ctl' = [ctl EXCEPT ![c] = [@ EXCEPT !.pc = "stop_clear", !.clean = ~StartInFlight]]
            /\ UNCHANGED <<response, stops_in_row>>
    /\ UNCHANGED <<spreadsheet, is_running, processor_thread, sheet, loop, returned>>

\* `_processor_state['is_running'] = False`
StopClearRunning(c) ==
    /\ ctl[c].pc = "stop_clear"
    /\ is_running' = FALSE
    /\ ctl' = [ctl EXCEPT ![c] = [@ EXCEPT !.pc = "stop_join"]]
    /\ UNCHANGED <<spreadsheet, processor_thread, sheet, loop, response, returned, stops_in_row>>

\* `if processor_thread: processor_thread.join(timeout=10)`, `return
\* {'success': True, ...}`: the join ends when the thread has ended or when
\* the 10 seconds have passed, whichever the clock brings first.
StopJoin(c) ==
    /\ ctl[c].pc = "stop_join"
    /\ ctl' = [ctl EXCEPT ![c] = IdleCtl]
    /\ response' = "stopped"
    /\ stops_in_row' = IF ctl[c].clean THEN Min(stops_in_row + 1, 2) ELSE stops_in_row
    /\ UNCHANGED <<spreadsheet, is_running, processor_thread, sheet, loop, returned>>

\* ---------------------------------------------------------- specifications
LoopStep(t) ==
    \/ LoopWhile(t)
    \/ ClaimGetAllValues(t)
    \/ ClaimUpdateStatus(t)
    \/ ClaimUpdateTimestamp(t)
    \/ UpdateJobStatus(t)
    \/ LoopFinally(t)

\* The state when the module has been loaded: nothing set up, no request yet,
\* and the JobQueue sheet as it is found.
InitWith(sheets) ==
    /\ spreadsheet = FALSE
    /\ is_running = FALSE
    /\ processor_thread = "None"
    /\ sheet \in sheets
    /\ loop = [t \in ThreadIds |-> DeadLoop]
    /\ ctl = [c \in Requests |-> IdleCtl]
    /\ response = ""
    /\ returned = [r \in 1..Len(sheet) |-> 0]
    /\ stops_in_row = 0

\* setup, /activate and /deactivate requests on the request threads `reqs`,
\* and every Processor Loop thread they start.
NextWith(reqs, args) ==
    \/ SetupProcessor
    \/ \E c \in reqs : StartCheck(c)
    \/ \E c \in reqs : StartLaunch(c, args)
    \/ \E c \in reqs : StopCheck(c)
    \/ \E c \in reqs : StopClearRunning(c)
    \/ \E c \in reqs : StopJoin(c)
    \/ \E t \in ThreadIds : LoopStep(t)

\* The whole program against a queue with jobs waiting: requests arrive one
\* after the other and set no limit.
Init == InitWith(Sheets({"status"}, {Row(<<"GENERATE_REPORT", "">>, PENDING)}, MaxSharedRows))
Next == NextWith({"c1"}, UnlimitedArgs)
Spec == Init /\ [][Next]_vars

\* The control plane with overlapping requests, on two request threads, and
\* the loops they start, against a queue with one job waiting.
InitControl == InitWith({<<HeaderRow("status"), Row(<<"GENERATE_REPORT", "">>, PENDING)>>})
NextControl == NextWith(Requests, UnlimitedArgs)
SpecControl == InitControl /\ [][NextControl]_vars

\* The state after setup_processor and start(): n Processor Loop threads at
\* the top of their loop (n = 2: a stop() whose join timed out and a second
\* start() came before the first thread reached its while test), the flag
\* set, the handle on the latest thread.
InitStarted(sheets, args, n) ==
    /\ spreadsheet = TRUE
    /\ is_running = TRUE
    /\ processor_thread = Threads[n]
    /\ sheet \in sheets
    /\ \E a \in args :
           loop = [t \in ThreadIds |->
                      IF \E k \in 1..n : t = Threads[k] THEN NewLoop(a[1], a[2]) ELSE DeadLoop]
    /\ ctl = [c \in Requests |-> IdleCtl]
    /\ response = "started"
    /\ returned = [r \in 1..Len(sheet) |-> 0]
    /\ stops_in_row = 0

\* One Processor Loop: the state after setup_processor and one start() with
\* any arguments, against any sheet; then that thread's steps.
InitLoop == InitStarted(Sheets(HeaderStatus, DataRows, MaxRows), AllArgs, 1)
NextLoop == \E t \in ThreadIds : LoopStep(t)
SpecLoop == InitLoop /\ [][NextLoop]_vars

\* One Processor Loop with limits up to MaxLimit against a short queue.
InitLimits == InitStarted(Sheets({"status"}, PendingRows, MaxSharedRows), LimitArgs, 1)
NextLimits == \E t \in ThreadIds : LoopStep(t)
SpecLimits == InitLimits /\ [][NextLimits]_vars

\* One Processor Loop and stop() requests, one after the other, no further
\* start(): every thread
\* that can take a step eventually takes one (handler, store and sleep calls
\* return); nothing obliges a request to arrive.
InitStop == InitStarted(Sheets({"status"}, PendingRows, MaxSharedRows), AllArgs, 1)
NextStop ==
    \/ \E c \in {"c1"} : StopCheck(c)
    \/ \E c \in {"c1"} : StopClearRunning(c)
    \/ \E c \in {"c1"} : StopJoin(c)
    \/ \E t \in ThreadIds : LoopStep(t)
SpecStop ==
    /\ InitStop
    /\ [][NextStop]_vars
    /\ \A t \in ThreadIds : WF_vars(LoopStep(t))
    /\ \A c \in Requests : WF_vars(StopClearRunning(c) \/ StopJoin(c))

\* One claimer, or two claimers scanning the same sheet: one Processor Loop
\* or two, started as in InitStarted, and their steps.
InitRace ==
    \E n \in 1..Len(Threads) :
        InitStarted(Sheets({"status"}, PendingRows, MaxSharedRows), UnlimitedArgs, n)
NextRace == \E t \in ThreadIds : LoopStep(t)
SpecRace == InitRace /\ [][NextRace]_vars

\* ------------------------------------------------------------------ claims
Rows == 1..Len(sheet)

\* Thread t's claim_next_job call writes a cell of row r in this step.
ClaimWrites(t, r) ==
    /\ loop[t].pc \in {"claim_status", "claim_timestamp"}
    /\ loop'[t] # loop[t]
    /\ sheet'[r] # sheet[r]

\* Thread t's claim_next_job call returns row r as the job in this step.
ClaimReturns(t, r) ==
    /\ loop[t].pc = "claim_timestamp"
    /\ loop'[t].pc = "update_job_status"
    /\ loop'[t].job = r

\* Thread t's process_job call returns to the loop in this step.
ProcessJobReturns(t) ==
    /\ loop[t].pc = "update_job_status"
    /\ loop'[t].pc = "while"

\* C1: for any sequence of start(), stop() and loop iterations against one
\* store, each queue row is returned by claim_next_job, and so handed to
\* process_job, at most once.
C1_ExactlyOnce == \A r \in Rows : returned[r] <= 1

\* C2: claim_next_job writes to and returns only data rows (never row 1)
\* whose status at scan time, in the snapshot get_all_values gave it, is
\* PENDING.
C2_OnlyPendingSelected ==
    [][\A t \in ThreadIds, r \in Rows :
          (ClaimWrites(t, r) \/ ClaimReturns(t, r)) =>
              /\ r >= 2
              /\ loop[t].all_values[r] = PENDING]_vars

\* Row 1 holds PENDING in its status cell and row 2 is COMPLETED; the scan
\* has passed both and written CLAIMED into row 3.
C2_Witness ==
    \E t \in ThreadIds :
        /\ loop[t].pc = "claim_timestamp"
        /\ loop[t].i = 3
        /\ loop[t].all_values[1] = PENDING
        /\ loop[t].all_values[2] = COMPLETED
        /\ sheet[3].status = CLAIMED

\* C3: the row claim_next_job returns is the first row, from row 2 on, whose
\* status was PENDING in the scan's snapshot.
C3_FirstPending ==
    [][\A t \in ThreadIds, r \in Rows :
          ClaimReturns(t, r) =>
              \A q \in 2..(r - 1) : loop[t].all_values[q] # PENDING]_vars

\* C4: when claim_next_job returns a row, the row's stored status is CLAIMED
\* and its stored timestamp_claimed is not empty; the timestamp is written
\* into a row whose status cell already holds CLAIMED.
C4_ClaimedOnReturn ==
    [][\A t \in ThreadIds, r \in Rows :
          /\ ClaimReturns(t, r) =>
                 /\ sheet'[r].status = CLAIMED
                 /\ sheet'[r].timestamp_claimed # ""
          /\ (ClaimWrites(t, r) /\ sheet'[r].timestamp_claimed # sheet[r].timestamp_claimed) =>
                 sheet[r].status = CLAIMED]_vars

\* C5: one call of claim_next_job changes the status of at most one row from
\* PENDING to CLAIMED.
C5_OneClaimPerCall == \A t \in ThreadIds : loop[t].nclaimed <= 1

\* C6: when process_job returns, the stored status of its job's row is
\* COMPLETED or FAILED, whatever the handler did.
C6_ProcessJobFinalizes ==
    [][\A t \in ThreadIds :
          ProcessJobReturns(t) => sheet'[loop[t].job].status \in {COMPLETED, FAILED}]_vars

\* C7: once a row's stored status is COMPLETED or FAILED, no step changes it.
C7_TerminalFinal ==
    [][\A r \in Rows :
          sheet[r].status \in {COMPLETED, FAILED} => sheet'[r].status = sheet[r].status]_vars

\* C8: every change of a status cell is PENDING to CLAIMED, CLAIMED to
\* RUNNING, RUNNING to COMPLETED or RUNNING to FAILED.
C8_FourEdges ==
    [][\A r \in Rows :
          sheet'[r].status # sheet[r].status =>
              <<sheet[r].status, sheet'[r].status>> \in
                  { <<PENDING, CLAIMED>>, <<CLAIMED, RUNNING>>,
                    <<RUNNING, COMPLETED>>, <<RUNNING, FAILED>> }]_vars

\* C9: start() called while is_running is set answers "already running", goes
\* no further (it never reaches the launch), and leaves is_running, the
\* thread handle and the loop threads as they were.
C9_StartRefusedWhileRunning ==
    [][\A c \in Requests :
          (is_running /\ ctl[c].pc = "idle") =>
              /\ ctl'[c].pc # "start_launch"
              /\ StartCheck(c) =>
                     /\ response' = "already_running"
                     /\ ctl'[c].pc = "idle"
                     /\ UNCHANGED <<is_running, processor_thread, loop>>]_vars

\* A loop thread is alive, is_running is set, and the latest call, a start(),
\* was answered "already running".
C9_Witness ==
    /\ is_running
    /\ response = "already_running"
    /\ processor_thread # "None"
    /\ loop[processor_thread].pc # "dead"
    /\ \A c \in Requests : ctl[c].pc = "idle"

\* C10: stop() called while is_running is clear answers "not running" and
\* changes nothing; a stop() that follows a returned stop(), with no start()
\* called or in progress in between, finds is_running clear and is refused.
C10_StopRefusedWhenNotRunning ==
    [][\A c \in Requests :
          ((~is_running \/ stops_in_row >= 1) /\ StopCheck(c)) =>
              /\ response' = "not_running"
              /\ ctl'[c].pc = "idle"
              /\ UNCHANGED <<spreadsheet, is_running, processor_thread, sheet, loop>>]_vars

\* A loop was started, and the latest two calls were stop() calls, the second
\* answered "not running".
C10_Witness ==
    /\ stops_in_row = 2
    /\ response = "not_running"
    /\ processor_thread # "None"
    /\ \A c \in Requests : ctl[c].pc = "idle"

\* The positions of a loop inside claim_next_job.
ClaimPcs == {"claim_next_job", "claim_status", "claim_timestamp"}

\* Thread t's claim_next_job call returns None in this step.
ClaimReturnsNone(t) ==
    /\ loop[t].pc \in ClaimPcs
    /\ loop'[t].pc \in {"while", "finally"}

\* C11: a loop with max_iterations = N makes at most N claim attempts; when
\* it leaves at the while test with the flag set and no auto-stop configured
\* it has made exactly N; passing the limit it goes to its exit; and the exit
\* leaves is_running clear.
C11_IterationLimit ==
    [][\A t \in ThreadIds :
          LET l == loop[t]
          IN  /\ l.max_iterations # 0 => loop'[t].attempts <= l.max_iterations
              /\ (l.pc = "while" /\ is_running /\ l.max_iterations # 0
                    /\ loop'[t].iteration > l.max_iterations) =>
                     /\ loop'[t].pc = "finally"
                     /\ l.attempts = l.max_iterations
              /\ (l.pc = "while" /\ is_running /\ l.auto_stop_minutes = 0
                    /\ loop'[t].pc = "finally") =>
                     /\ l.max_iterations # 0
                     /\ l.attempts = l.max_iterations
              /\ (l.pc = "finally" /\ loop'[t].pc = "dead") => ~is_running']_vars

\* start(max_iterations=3) on an empty queue: the loop has left at its fourth
\* while test after exactly three claim attempts.
C11_Witness ==
    \E t \in ThreadIds :
        /\ Len(sheet) = 1
        /\ loop[t].pc = "finally"
        /\ loop[t].max_iterations = 3
        /\ loop[t].auto_stop_minutes = 0
        /\ loop[t].iteration = 4
        /\ loop[t].attempts = 3

\* C12: with auto-stop configured, a claim attempt that returns None ends the
\* loop exactly when it is the 10th miss in a row (a returned job starts the
\* count again); with auto-stop not configured a miss never ends the loop.
C12_IdleAutoStop ==
    [][\A t \in ThreadIds :
          ClaimReturnsNone(t) =>
              IF loop[t].auto_stop_minutes # 0
              THEN /\ loop'[t].misses <= 10
                   /\ loop'[t].pc = "finally" <=> loop'[t].misses = 10
              ELSE loop'[t].pc = "while"]_vars

\* A loop claimed the job of row 2, processed it, and then stopped by the
\* idle rule after 10 misses in a row.
C12_Witness ==
    \E t \in ThreadIds :
        /\ Len(sheet) = 2
        /\ returned[2] = 1
        /\ loop[t].pc = "finally"
        /\ loop[t].auto_stop_minutes # 0
        /\ loop[t].misses = 10
        /\ loop[t].idle_count = 10

\* C13: when the claim of a row whose payload does not parse has written both
\* cells, claim_next_job returns that row as the job.
C13_MalformedPayloadProceeds ==
    [][\A t \in ThreadIds :
          (/\ loop[t].pc = "claim_timestamp"
           /\ sheet'[loop[t].i].timestamp_claimed # sheet[loop[t].i].timestamp_claimed
           /\ ~PayloadParses(sheet[loop[t].i].payload)) =>
              ClaimReturns(t, loop[t].i)]_vars

\* C14: when process_job returns for a job whose name is not in the dispatch
\* table, the row is FAILED with an error code and an error message and no
\* result, the code and message being those of the dispatch's ValueError,
\* which names the job, when that is what process_job caught; the loop goes
\* on to its next iteration with the flag as it was; and no row with such a
\* name is ever set to COMPLETED.
C14_UnknownJobFails ==
    [][/\ \A t \in ThreadIds :
             (ProcessJobReturns(t) /\ sheet[loop[t].job].jobName \notin KnownJobs) =>
                 LET old == sheet[loop[t].job]
                     new == sheet'[loop[t].job]
                 IN  /\ new.status = FAILED
                     /\ new.errorCode # ""
                     /\ new.errorMessage # ""
                     /\ new.result = ""
                     /\ loop[t].exc.code = "ValueError" =>
                            /\ new.errorCode = "ValueError"
                            /\ new.errorMessage = "Job desconhecido: " \o old.jobName
                     /\ loop'[t].pc = "while"
                     /\ is_running' = is_running
       /\ \A r \in Rows :
             (sheet[r].jobName \notin KnownJobs /\ sheet'[r].status # sheet[r].status) =>
                 sheet'[r].status # COMPLETED]_vars

\* The job UNKNOWN_X of row 2 was claimed and has ended FAILED with the
\* ValueError that names it; the loop is back at its while test.
C14_Witness ==
    \E t \in ThreadIds :
        /\ Len(sheet) >= 2
        /\ sheet[2].jobName = "UNKNOWN_X"
        /\ returned[2] = 1
        /\ sheet[2].status = FAILED
        /\ sheet[2].errorCode = "ValueError"
        /\ sheet[2].errorMessage = "Job desconhecido: UNKNOWN_X"
        /\ loop[t].pc = "while"
        /\ is_running

\* C15: a timestamp_claimed or timestamp_completed cell that holds a
\* timestamp is never written with another.
C15_TimestampsWriteOnce ==
    [][\A r \in Rows :
          /\ sheet[r].timestamp_claimed # "" =>
                 sheet'[r].timestamp_claimed = sheet[r].timestamp_claimed
          /\ sheet[r].timestamp_completed # "" =>
                 sheet'[r].timestamp_completed = sheet[r].timestamp_completed]_vars

\* C16: at most one Processor Loop thread is alive.
C16_SingleActiveLoop == Cardinality({t \in ThreadIds : loop[t].pc # "dead"}) <= 1

\* A cell write of thread t's update_job_status call raises in this step.
UpdateWriteFails(t) ==
    /\ loop[t].pc = "update_job_status"
    /\ sheet' = sheet
    /\ loop'[t] = UpdateRaised(loop[t])

\* C18: when a cell write of a RUNNING, COMPLETED or FAILED status update
\* fails, the exception leaves process_job and the loop goes to its exit.
C18_StoreFailureStopsLoop ==
    [][\A t \in ThreadIds : UpdateWriteFails(t) => loop'[t].pc = "finally"]_vars

\* C19: when a Processor Loop thread ends, is_running is clear and
\* processor_thread does not hold the handle of the ended thread.
C19_TeardownOnExit ==
    [][\A t \in ThreadIds :
          (loop[t].pc = "finally" /\ loop'[t].pc = "dead") =>
              /\ ~is_running'
              /\ processor_thread' # t]_vars

\* C17: once stop() has cleared is_running, with no start() after it, a loop
\* that comes to its while test goes to its exit, so that the only claim
\* attempt it can still begin is the one of the iteration that had passed
\* the test before the flag was cleared; and every loop thread eventually
\* ends.
C17_CooperativeStop ==
    /\ [][\A t \in ThreadIds :
             (~is_running /\ loop[t].pc = "while" /\ loop'[t] # loop[t]) =>
                 loop'[t].pc = "finally"]_vars
    /\ (\E c \in Requests : ctl[c].pc = "stop_join") ~>
           (\A t \in ThreadIds : loop[t].pc = "dead")

\* stop() has cleared the flag and waits in join while the loop, past its
\* while test, is about to call claim_next_job with a job waiting in row 2.
C17_Witness ==
    \E c \in Requests, t \in ThreadIds :
        /\ ctl[c].pc = "stop_join"
        /\ ~is_running
        /\ loop[t].pc = "claim_next_job"
        /\ Len(sheet) = 2
        /\ sheet[2].status = PENDING

\* C20: a row is returned by claim_next_job twice only where two loops scan
\* the sheet (the handle is then on the second thread); with one loop no row
\* is returned twice.
C20_RaceNeedsTwoClaimers ==
    \A r \in Rows : returned[r] >= 2 => processor_thread = Threads[2]

\* Two loops have both read row 2 as PENDING before either wrote CLAIMED,
\* and both have returned it as their job.
C20_Witness ==
    /\ Len(sheet) = 2
    /\ returned[2] = 2
    /\ \A t \in ThreadIds : loop[t].pc = "update_job_status" /\ loop[t].job = 2

\* C21: when claim_next_job returns None, every row's stored status is what
\* it was when the call read the sheet: no row has been left CLAIMED by a
\* call that did not return it.
C21_NoOrphanedClaim ==
    [][\A t \in ThreadIds :
          (ClaimReturnsNone(t) /\ loop[t].pc \in {"claim_status", "claim_timestamp"}) =>
              \A r \in Rows : sheet'[r].status = loop[t].all_values[r]]_vars

====
